---------------------------- MODULE Spec2Model ----------------------------
(***************************************************************************)
(* Model of the two Turing-machine simulators of big-o-fibonnaci:          *)
(*   - SimuladorTuring (src/simulador_turing.py): a list tape that grows   *)
(*     on demand, driven by ejecutar and by analizar_rendimiento;          *)
(*   - TuringMachine (src/main.py): a sparse blank-default tape, driven    *)
(*     by run(max_steps).                                                  *)
(* A behaviour is one program (variable prog) working through a bounded    *)
(* number of runs under one configuration.  Python indices are kept        *)
(* 0-based; a list l is the sequence with l[i] stored at position i + 1.   *)
(***************************************************************************)
EXTENDS Integers, Sequences, FiniteSets, TLC

\* ------------------------------------------------------------------ bounds

\* Longest input string tried.
MaxEntrada == 2

\* Number of runs one behaviour goes through.
MaxCorridas == 2

\* Largest max_steps handed to TuringMachine.run.
MaxMaxSteps == 5

\* ------------------------------------------------------- program constants

\* Blank cells put before the input by inicializar_cinta.
MargenIzq == 5

\* margen: blank cells put after the input by inicializar_cinta.
Margen == 50

\* Size of the block of blanks added by one growth of the tape.
Bloque == 20

\* Step ceiling of ejecutar and analizar_rendimiento.
LimitePasos == 1000

\* ------------------------------------------------------------ configuration

Blanco == "B"
Uno == "1"

\* The input alphabet of the configurations tried, and all symbols an input
\* string may be made of ("0" is outside the input alphabet).
AlfabetoEntrada == {Uno}
SimbolosEntrada == {Uno, "0"}

Estados == {"q0", "q8", "qf"}
EstadosFinales == {"qf"}

\* Transition lists in the shape of main.py's funcion_transicion: tuples
\* <<estado, lee, proximo_estado, escribe, direccion>>.
FDerecha == { <<"q0", "1", "q0", "1", "R">>, <<"q0", "B", "q0", "B", "R">> }
FIzquierda == { <<"q0", "1", "q0", "B", "L">>, <<"q0", "B", "q0", "1", "L">> }
FVacia == { }
FBorra == { <<"q0", "1", "q0", "B", "R">> }
FAcepta ==
    { <<"q0", "1", "q8", "1", "R">>, <<"q0", "B", "qf", "B", "R">>,
      <<"q8", "1", "qf", "1", "L">>, <<"q8", "B", "qf", "1", "L">> }
FSale ==
    { <<"qf", "1", "q0", "1", "R">>, <<"qf", "B", "q0", "B", "R">>,
      <<"q0", "1", "qf", "B", "R">>, <<"q0", "B", "qf", "1", "R">> }
FPingPong ==
    { <<"q0", "1", "q8", "1", "R">>, <<"q0", "B", "q8", "B", "R">>,
      <<"q8", "1", "q0", "1", "L">>, <<"q8", "B", "q0", "B", "L">> }
FCuenta ==
    { <<"q0", "1", "q0", "1", "R">>, <<"q0", "B", "q8", "1", "L">>,
      <<"q8", "1", "q8", "B", "L">> }

Funciones ==
    { FDerecha, FIzquierda, FVacia, FBorra, FAcepta, FSale, FPingPong, FCuenta }

\* The dictionary TuringMachine.__init__ builds from funcion_transicion:
\* (estado, lee) -> next_state, write, move.
Transitions(F) ==
    [ k \in { <<t[1], t[2]>> : t \in F } |->
        LET t == CHOOSE u \in F : u[1] = k[1] /\ u[2] = k[2]
        IN  [next_state |-> t[3], write |-> t[4], move |-> t[5]] ]

\* The same table in the shape of simulador_turing.py's tabla_transicion:
\* estado -> simbolo -> <<nuevo_estado, nuevo_simbolo, movimiento>>.
TablaTransicion(F) ==
    [ q \in { t[1] : t \in F } |->
        [ s \in { t[2] : t \in { u \in F : u[1] = q } } |->
            LET t == CHOOSE u \in F : u[1] = q /\ u[2] = s
            IN  <<t[3], t[4], IF t[5] = "R" THEN 1 ELSE -1>> ] ]

Configs ==
    { [estado_inicial |-> q0, estados_finales |-> EstadosFinales,
       simbolo_blanco |-> Blanco, simbolos_entrada |-> AlfabetoEntrada,
       tabla_transicion |-> TablaTransicion(F), transitions |-> Transitions(F)]
      : q0 \in {"q0", "qf"}, F \in Funciones }

\* All strings over SimbolosEntrada of length 0 .. MaxEntrada.
Entradas == UNION { [1..n -> SimbolosEntrada] : n \in 0..MaxEntrada }

\* ------------------------------------------------------------------- state

VARIABLES
    prog,       \* "simulador" (simulador_turing.py) or "main" (main.py)
    cfg,        \* the loaded configuration, never changed
    pc,         \* position of the driver
    sim,        \* the SimuladorTuring instance: cinta, cabezal, estado_actual, pasos
    terminado,  \* the run loops' local flag
    resultado,  \* what ejecutar returned (empty while it has not)
    excepcion,  \* the exception that ended the last call ("" when none)
    entrada,    \* the input of the current run
    corridas,   \* runs started so far
    aplicadas,  \* history: transitions applied in the current run
    llamadas,   \* history: calls of ejecutar_paso or step in the current run
    antepuestas,\* history: cells prepended to cinta in the current run
    fresco,     \* history: a machine built afresh for the current input
    resultados, \* analizar_rendimiento's list of results
    tm,         \* the TuringMachine instance
    max_steps,  \* run's parameter
    verbose,    \* run's parameter
    run_result  \* what TuringMachine.run returned (empty while it has not)

vars == <<prog, cfg, pc, sim, terminado, resultado, excepcion, entrada,
          corridas, aplicadas, llamadas, antepuestas, fresco, resultados,
          tm, max_steps, verbose, run_result>>

\* --------------------------------------------------------- SimuladorTuring

\* n blank cells: [blanco] * n.
Blancos(blanco, n) == [i \in 1..n |-> blanco]

\* Python's list indexing l[i]: the position read, or 0 for an IndexError.
Posicion(l, i) ==
    IF 0 <= i /\ i < Len(l) THEN i + 1
    ELSE IF -Len(l) <= i /\ i < 0 THEN Len(l) + i + 1
    ELSE 0

\* cinta.count('1').
ContarUnos(cinta) == Cardinality({ i \in 1..Len(cinta) : cinta[i] = Uno })

\* SimuladorTuring.__init__ after cargar_configuracion.
SimNuevo(c) ==
    [cinta |-> <<>>, cabezal |-> 0, estado_actual |-> c.estado_inicial, pasos |-> 0]

\* inicializar_cinta: whether the validation loop raises ValueError.
EntradaInvalida(c, e) == \E i \in 1..Len(e) : e[i] \notin c.simbolos_entrada

\* inicializar_cinta without its last line, the reset of pasos.
InicializarCintaSinPasos(m, c, e) ==
    [cinta |-> Blancos(c.simbolo_blanco, MargenIzq) \o e
                 \o Blancos(c.simbolo_blanco, Margen),
     cabezal |-> MargenIzq,
     estado_actual |-> c.estado_inicial,
     pasos |-> m.pasos]

\* inicializar_cinta without the reset of estado_actual.
InicializarCintaSinEstado(m, c, e) ==
    [cinta |-> Blancos(c.simbolo_blanco, MargenIzq) \o e
                 \o Blancos(c.simbolo_blanco, Margen),
     cabezal |-> MargenIzq,
     estado_actual |-> m.estado_actual,
     pasos |-> 0]

\* inicializar_cinta after the validation loop.
InicializarCinta(m, c, e) ==
    [cinta |-> Blancos(c.simbolo_blanco, MargenIzq) \o e
                 \o Blancos(c.simbolo_blanco, Margen),
     cabezal |-> MargenIzq,
     estado_actual |-> c.estado_inicial,
     pasos |-> 0]

\* Crecer without its elif branch: the tape only ever grows at its end.
CrecerSoloAlFinal(cinta, cabezal, blanco) ==
    IF cabezal >= Len(cinta) - 2
    THEN [cinta |-> cinta \o Blancos(blanco, Bloque), cabezal |-> cabezal,
          antepuestas |-> 0]
    ELSE [cinta |-> cinta, cabezal |-> cabezal, antepuestas |-> 0]

\* Crecer with the growth one cell late on either side.
CrecerTarde(cinta, cabezal, blanco) ==
    IF cabezal >= Len(cinta) - 1
    THEN [cinta |-> cinta \o Blancos(blanco, Bloque), cabezal |-> cabezal,
          antepuestas |-> 0]
    ELSE IF cabezal <= 0
    THEN [cinta |-> Blancos(blanco, Bloque) \o cinta, cabezal |-> cabezal + Bloque,
          antepuestas |-> Bloque]
    ELSE [cinta |-> cinta, cabezal |-> cabezal, antepuestas |-> 0]

\* Crecer with the head left where it was when a block is put in front.
CrecerSinReajuste(cinta, cabezal, blanco) ==
    IF cabezal >= Len(cinta) - 2
    THEN [cinta |-> cinta \o Blancos(blanco, Bloque), cabezal |-> cabezal,
          antepuestas |-> 0]
    ELSE IF cabezal <= 1
    THEN [cinta |-> Blancos(blanco, Bloque) \o cinta, cabezal |-> cabezal,
          antepuestas |-> Bloque]
    ELSE [cinta |-> cinta, cabezal |-> cabezal, antepuestas |-> 0]

\* The growth of the tape at the end of a step: the new tape, the new head
\* and the number of cells put in front.
Crecer(cinta, cabezal, blanco) ==
    IF cabezal >= Len(cinta) - 2
    THEN [cinta |-> cinta \o Blancos(blanco, Bloque), cabezal |-> cabezal,
          antepuestas |-> 0]
    ELSE IF cabezal <= 1
    THEN [cinta |-> Blancos(blanco, Bloque) \o cinta, cabezal |-> cabezal + Bloque,
          antepuestas |-> Bloque]
    ELSE [cinta |-> cinta, cabezal |-> cabezal, antepuestas |-> 0]

\* Whether the table has an entry for (estado, simbolo).
HayTransicion(c, estado, simbolo) ==
    /\ estado \in DOMAIN c.tabla_transicion
    /\ simbolo \in DOMAIN c.tabla_transicion[estado]

\* The step count after one more transition.
ContarPaso(pasos) == pasos + 1

\* AplicarTransicion without the write of the new symbol.
AplicarTransicionSinEscribir(m, c, p) ==
    LET transicion == c.tabla_transicion[m.estado_actual][m.cinta[p]]
        g == Crecer(m.cinta, m.cabezal + transicion[3], c.simbolo_blanco)
    IN  [m |-> [cinta |-> g.cinta, cabezal |-> g.cabezal,
                estado_actual |-> transicion[1], pasos |-> ContarPaso(m.pasos)],
         antepuestas |-> g.antepuestas]

\* The machine after the transition for (estado_actual, symbol at position p)
\* is applied: write, change state, move, grow, count.
AplicarTransicion(m, c, p) ==
    LET transicion == c.tabla_transicion[m.estado_actual][m.cinta[p]]
        escrita == [m.cinta EXCEPT ![p] = transicion[2]]
        g == Crecer(escrita, m.cabezal + transicion[3], c.simbolo_blanco)
    IN  [m |-> [cinta |-> g.cinta, cabezal |-> g.cabezal,
                estado_actual |-> transicion[1], pasos |-> ContarPaso(m.pasos)],
         antepuestas |-> g.antepuestas]

\* TerminadoTras without the look at the next symbol.
TerminadoSoloFinal(m, c) ==
    IF m.estado_actual \in c.estados_finales THEN "True" ELSE "False"

\* The value ejecutar_paso returns after a transition was applied.
TerminadoTras(m, c) ==
    LET p == Posicion(m.cinta, m.cabezal)
    IN  IF m.estado_actual \in c.estados_finales THEN "True"
        ELSE IF p = 0 THEN "IndexError"
        ELSE IF ~HayTransicion(c, m.estado_actual, m.cinta[p]) THEN "True"
        ELSE "False"

\* ejecutar_paso returning False where it finds no transition on entry.
EjecutarPasoNoAvisa(m, c) ==
    LET p == Posicion(m.cinta, m.cabezal)
    IN  IF p = 0
        THEN [m |-> m, ret |-> "IndexError", aplicada |-> FALSE, antepuestas |-> 0]
        ELSE IF ~HayTransicion(c, m.estado_actual, m.cinta[p])
        THEN [m |-> m, ret |-> "False", aplicada |-> FALSE, antepuestas |-> 0]
        ELSE LET a == AplicarTransicion(m, c, p)
             IN  [m |-> a.m, ret |-> TerminadoTras(a.m, c), aplicada |-> TRUE,
                  antepuestas |-> a.antepuestas]

\* ejecutar_paso counting a step also when it finds no transition.
EjecutarPasoCuentaAtasco(m, c) ==
    LET p == Posicion(m.cinta, m.cabezal)
    IN  IF p = 0
        THEN [m |-> m, ret |-> "IndexError", aplicada |-> FALSE, antepuestas |-> 0]
        ELSE IF ~HayTransicion(c, m.estado_actual, m.cinta[p])
        THEN [m |-> [m EXCEPT !.pasos = @ + 1], ret |-> "True", aplicada |-> FALSE,
              antepuestas |-> 0]
        ELSE LET a == AplicarTransicion(m, c, p)
             IN  [m |-> a.m, ret |-> TerminadoTras(a.m, c), aplicada |-> TRUE,
                  antepuestas |-> a.antepuestas]

\* ejecutar_paso: the machine after the call, what the call returns ("True",
\* "False" or the exception raised), whether a transition was applied and how
\* many cells were put in front of the tape.
EjecutarPaso(m, c) ==
    LET p == Posicion(m.cinta, m.cabezal)
    IN  IF p = 0
        THEN [m |-> m, ret |-> "IndexError", aplicada |-> FALSE, antepuestas |-> 0]
        ELSE IF ~HayTransicion(c, m.estado_actual, m.cinta[p])
        THEN [m |-> m, ret |-> "True", aplicada |-> FALSE, antepuestas |-> 0]
        ELSE LET a == AplicarTransicion(m, c, p)
             IN  [m |-> a.m, ret |-> TerminadoTras(a.m, c), aplicada |-> TRUE,
                  antepuestas |-> a.antepuestas]

\* ------------------------------------------------------------ TuringMachine

\* self.tape[i] of the defaultdict: the symbol read.
TapeGet(tape, i) == IF i \in DOMAIN tape THEN tape[i] ELSE Blanco

\* The defaultdict after its keys lo .. hi were read: a key read and missing
\* is inserted with the blank.
TapeTouch(tape, lo, hi) ==
    [ i \in (DOMAIN tape) \cup (lo..hi) |-> TapeGet(tape, i) ]

\* TuringMachine.__init__ after the configuration is read.
TMNuevo(c, initial_tape) ==
    [tape |-> [ i \in 0..(Len(initial_tape) - 1) |-> initial_tape[i + 1] ],
     head |-> 0,
     current_state |-> c.estado_inicial,
     steps |-> 0,
     min_pos |-> 0,
     max_pos |-> Len(initial_tape) - 1,
     input_n |-> Len(initial_tape),
     iterations |-> 0,
     final_ones_count |-> 0]

\* count_ones_on_tape: the number returned.
CountOnesOnTape(t) ==
    Cardinality({ i \in t.min_pos..t.max_pos : TapeGet(t.tape, i) = Uno })

\* fibonacci(n) of main.py, and the loop it shares with get_fibonacci_result.
RECURSIVE FibLoop(_, _, _, _)
FibLoop(a, b, i, n) == IF i > n THEN b ELSE FibLoop(b, a + b, i + 1, n)

fibonacci(n) ==
    IF n <= 0 THEN 0
    ELSE IF n = 1 \/ n = 2 THEN 1
    ELSE FibLoop(1, 1, 3, n)

\* get_fibonacci_result.
GetFibonacciResult(t) ==
    IF t.final_ones_count > 0 THEN t.final_ones_count
    ELSE IF t.input_n = 1 \/ t.input_n = 2 THEN 1
    ELSE FibLoop(1, 1, 3, t.input_n)

\* The head moved against the direction of the transition.
MoverAlReves(head, move) == IF move = "R" THEN head - 1 ELSE head + 1

\* The next head position for a direction.
Mover(head, move) == IF move = "R" THEN head + 1 ELSE head - 1

\* step without the update of min_pos.
StepSinMinPos(t, c, v) ==
    IF t.current_state \in c.estados_finales
    THEN [t |-> t, ret |-> FALSE]
    ELSE
      LET current_symbol == TapeGet(t.tape, t.head)
          t1 == [t EXCEPT !.tape = TapeTouch(@, t.head, t.head)]
          t2 == IF t1.current_state = "q8" /\ current_symbol = "B"
                THEN [t1 EXCEPT !.iterations = @ + 1] ELSE t1
          t3 == IF t2.current_state = "q0" /\ current_symbol = "B"
                THEN [t2 EXCEPT !.final_ones_count = CountOnesOnTape(t2),
                                !.tape = TapeTouch(@, t2.min_pos, t2.max_pos)]
                ELSE t2
          t4 == IF v THEN [t3 EXCEPT !.tape = TapeTouch(@, t3.min_pos, t3.max_pos)]
                ELSE t3
          key == <<t.current_state, current_symbol>>
      IN  IF key \notin DOMAIN c.transitions
          THEN [t |-> t4, ret |-> FALSE]
          ELSE LET transition == c.transitions[key]
                   h == Mover(t4.head, transition.move)
               IN  [t |-> [t4 EXCEPT !.tape = [t4.tape EXCEPT ![t4.head] = transition.write],
                                     !.head = h,
                                     !.max_pos = IF h > @ THEN h ELSE @,
                                     !.current_state = transition.next_state,
                                     !.steps = @ + 1],
                    ret |-> TRUE]

\* step: the machine after the call and the value returned.
Step(t, c, v) ==
    IF t.current_state \in c.estados_finales
    THEN [t |-> t, ret |-> FALSE]
    ELSE
      LET current_symbol == TapeGet(t.tape, t.head)
          t1 == [t EXCEPT !.tape = TapeTouch(@, t.head, t.head)]
          t2 == IF t1.current_state = "q8" /\ current_symbol = "B"
                THEN [t1 EXCEPT !.iterations = @ + 1] ELSE t1
          t3 == IF t2.current_state = "q0" /\ current_symbol = "B"
                THEN [t2 EXCEPT !.final_ones_count = CountOnesOnTape(t2),
                                !.tape = TapeTouch(@, t2.min_pos, t2.max_pos)]
                ELSE t2
          t4 == IF v THEN [t3 EXCEPT !.tape = TapeTouch(@, t3.min_pos, t3.max_pos)]
                ELSE t3
          key == <<t.current_state, current_symbol>>
      IN  IF key \notin DOMAIN c.transitions
          THEN [t |-> t4, ret |-> FALSE]
          ELSE LET transition == c.transitions[key]
                   h == Mover(t4.head, transition.move)
               IN  [t |-> [t4 EXCEPT !.tape = [t4.tape EXCEPT ![t4.head] = transition.write],
                                     !.head = h,
                                     !.min_pos = IF h < @ THEN h ELSE @,
                                     !.max_pos = IF h > @ THEN h ELSE @,
                                     !.current_state = transition.next_state,
                                     !.steps = @ + 1],
                    ret |-> TRUE]

\* The dictionary of run with accepted set for every halt, stuck ones too.
RunResultAceptaAlParar(t, c) ==
    [accepted |-> \/ t.current_state \in c.estados_finales
                  \/ <<t.current_state, TapeGet(t.tape, t.head)>>
                        \notin DOMAIN c.transitions,
     steps |-> t.steps,
     result |-> GetFibonacciResult(t)]

\* The dictionary run returns (the elapsed time left out).
RunResult(t, c) ==
    [accepted |-> t.current_state \in c.estados_finales,
     steps |-> t.steps,
     result |-> GetFibonacciResult(t)]

\* ------------------------------------------------------------------ actions

Init ==
    /\ prog \in {"simulador", "main"}
    /\ cfg \in Configs
    /\ pc = IF prog = "simulador" THEN "listo" ELSE "tm_nada"
    /\ sim = SimNuevo(cfg)
    /\ fresco = SimNuevo(cfg)
    /\ terminado = FALSE
    /\ resultado = <<>>
    /\ resultados = <<>>
    /\ excepcion = ""
    /\ entrada = <<>>
    /\ corridas = 0
    /\ aplicadas = 0
    /\ llamadas = 0
    /\ antepuestas = 0
    /\ tm = TMNuevo(cfg, <<>>)
    /\ max_steps = 0
    /\ verbose = FALSE
    /\ run_result = <<>>

EnReposo == pc \in {"listo", "hecho", "error"}

noTM == <<tm, max_steps, verbose, run_result>>
noSim == <<sim, fresco, terminado, resultado, resultados, antepuestas>>

\* The driver is inside a run: between the start of a run loop and the
\* return of the result.
EnCorrida == pc \in {"ej_while", "ej_fin", "an_while", "tm_while", "tm_fin"}

\* The start of a run on input e, shared by ejecutar and analizar_rendimiento:
\* inicializar_cinta, which raises ValueError or sets the machine up.
Arrancar(e, lazo) ==
    /\ corridas < MaxCorridas
    /\ corridas' = corridas + 1
    /\ entrada' = e
    /\ IF EntradaInvalida(cfg, e)
       THEN /\ excepcion' = "ValueError"
            /\ pc' = "error"
            /\ UNCHANGED <<sim, fresco, terminado, aplicadas, llamadas, antepuestas>>
       ELSE /\ excepcion' = ""
            /\ aplicadas' = 0
            /\ llamadas' = 0
            /\ antepuestas' = 0
            /\ sim' = InicializarCinta(sim, cfg, e)
            /\ fresco' = InicializarCinta(SimNuevo(cfg), cfg, e)
            /\ terminado' = FALSE
            /\ pc' = lazo

\* ejecutar(entrada) up to the head of its while loop.
Ejecutar ==
    /\ prog = "simulador"
    /\ EnReposo
    /\ \E e \in Entradas : Arrancar(e, "ej_while")
    /\ resultado' = <<>>
    /\ resultados' = <<>>
    /\ UNCHANGED <<prog, cfg>>
    /\ UNCHANGED noTM

\* ejecutar's break after a step: if self.pasos > 1000.
EjecutarRompe(pasos) == pasos > LimitePasos

\* The condition of analizar_rendimiento's while loop, one step short.
AnalizarSigueUnoMenos(term, pasos) == ~term /\ pasos < LimitePasos

\* The condition of analizar_rendimiento's while loop.
AnalizarSigue(term, pasos) == ~term /\ pasos <= LimitePasos

\* One call of ejecutar_paso from a run loop: the machine, the flag and the
\* history after it, and the exception if it raised.
Paso(sigue, sale) ==
    LET r == EjecutarPaso(sim, cfg)
        f == EjecutarPaso(fresco, cfg)
    IN  /\ sim' = r.m
        /\ fresco' = f.m
        /\ aplicadas' = IF r.aplicada THEN aplicadas + 1 ELSE aplicadas
        /\ llamadas' = llamadas + 1
        /\ antepuestas' = antepuestas + r.antepuestas
        /\ IF r.ret = "IndexError"
           THEN /\ excepcion' = "IndexError"
                /\ pc' = "error"
                /\ UNCHANGED terminado
           ELSE /\ terminado' = (r.ret = "True")
                /\ pc' = IF EjecutarRompe(r.m.pasos) THEN sale ELSE sigue
                /\ UNCHANGED excepcion

\* ejecutar's loop: while not terminado: step; if pasos > 1000: break.
EjecutarIter ==
    /\ pc = "ej_while"
    /\ IF ~terminado
       THEN Paso("ej_while", "ej_fin")
       ELSE /\ pc' = "ej_fin"
            /\ UNCHANGED <<sim, fresco, terminado, excepcion, aplicadas, llamadas,
                           antepuestas>>
    /\ UNCHANGED <<prog, cfg, resultado, resultados, entrada, corridas>>
    /\ UNCHANGED noTM

\* ejecutar after its loop: the result is read off the tape and returned.
EjecutarFin ==
    /\ pc = "ej_fin"
    /\ resultado' = <<ContarUnos(sim.cinta)>>
    /\ pc' = "hecho"
    /\ UNCHANGED <<prog, cfg, sim, fresco, terminado, resultados, excepcion,
                   entrada, corridas, aplicadas, llamadas, antepuestas>>
    /\ UNCHANGED noTM

\* analizar_rendimiento(entradas) up to the head of its for loop.
AnalizarRendimiento ==
    /\ prog = "simulador"
    /\ EnReposo
    /\ corridas < MaxCorridas
    /\ resultados' = <<>>
    /\ resultado' = <<>>
    /\ excepcion' = ""
    /\ pc' = "an_for"
    /\ UNCHANGED <<prog, cfg, sim, fresco, terminado, entrada, corridas,
                   aplicadas, llamadas, antepuestas>>
    /\ UNCHANGED noTM

\* The for loop takes the next input, up to the head of the while loop.
AnalizarEntrada ==
    /\ pc = "an_for"
    /\ \E e \in Entradas : Arrancar(e, "an_while")
    /\ UNCHANGED <<prog, cfg, resultado, resultados>>
    /\ UNCHANGED noTM

\* analizar_rendimiento's inner loop: while not terminado and pasos <= 1000;
\* after it the entry's result is appended.
AnalizarIter ==
    /\ pc = "an_while"
    /\ IF AnalizarSigue(terminado, sim.pasos)
       THEN /\ Paso("an_while", "an_while")
            /\ UNCHANGED resultados
       ELSE /\ resultados' = Append(resultados,
                 [entrada |-> entrada, longitud |-> Len(entrada),
                  resultado |-> ContarUnos(sim.cinta), pasos |-> sim.pasos])
            /\ pc' = "an_for"
            /\ UNCHANGED <<sim, fresco, terminado, excepcion, aplicadas, llamadas,
                           antepuestas>>
    /\ UNCHANGED <<prog, cfg, resultado, entrada, corridas>>
    /\ UNCHANGED noTM

\* The for loop is over: analizar_rendimiento returns its list.
AnalizarFin ==
    /\ pc = "an_for"
    /\ pc' = "hecho"
    /\ UNCHANGED <<prog, cfg, sim, fresco, terminado, resultado, resultados,
                   excepcion, entrada, corridas, aplicadas, llamadas, antepuestas>>
    /\ UNCHANGED noTM

\* TuringMachine(config_file, initial_tape).
TMConstruir ==
    /\ prog = "main"
    /\ pc \in {"tm_nada", "tm_hecho"}
    /\ corridas < MaxCorridas
    /\ corridas' = corridas + 1
    /\ \E e \in Entradas :
          /\ entrada' = e
          /\ tm' = TMNuevo(cfg, e)
    /\ run_result' = <<>>
    /\ aplicadas' = 0
    /\ llamadas' = 0
    /\ pc' = "tm_listo"
    /\ UNCHANGED <<prog, cfg, excepcion, max_steps, verbose>>
    /\ UNCHANGED noSim

\* run(max_steps, verbose) up to the head of its while loop.
TMRun ==
    /\ pc = "tm_listo"
    /\ max_steps' \in 0..MaxMaxSteps
    /\ verbose' \in BOOLEAN
    /\ pc' = "tm_while"
    /\ UNCHANGED <<prog, cfg, excepcion, entrada, corridas, aplicadas, llamadas, tm,
                   run_result>>
    /\ UNCHANGED noSim

\* run's loop: while self.steps < max_steps and self.step().
TMIter ==
    /\ pc = "tm_while"
    /\ IF tm.steps < max_steps
       THEN LET r == Step(tm, cfg, verbose)
            IN  /\ tm' = r.t
                /\ aplicadas' = IF r.ret THEN aplicadas + 1 ELSE aplicadas
                /\ llamadas' = llamadas + 1
                /\ pc' = IF r.ret THEN "tm_while" ELSE "tm_fin"
       ELSE /\ pc' = "tm_fin"
            /\ UNCHANGED <<tm, aplicadas, llamadas>>
    /\ UNCHANGED <<prog, cfg, excepcion, entrada, corridas, max_steps, verbose,
                   run_result>>
    /\ UNCHANGED noSim

\* run after its loop: the report (when verbose) and the dictionary returned.
TMFin ==
    /\ pc = "tm_fin"
    /\ run_result' = <<RunResult(tm, cfg)>>
    /\ tm' = IF verbose THEN [tm EXCEPT !.tape = TapeTouch(@, tm.min_pos, tm.max_pos)]
             ELSE tm
    /\ pc' = "tm_hecho"
    /\ UNCHANGED <<prog, cfg, excepcion, entrada, corridas, aplicadas, llamadas,
                   max_steps, verbose>>
    /\ UNCHANGED noSim

Next ==
    \/ Ejecutar
    \/ EjecutarIter
    \/ EjecutarFin
    \/ AnalizarRendimiento
    \/ AnalizarEntrada
    \/ AnalizarIter
    \/ AnalizarFin
    \/ TMConstruir
    \/ TMRun
    \/ TMIter
    \/ TMFin

Spec == Init /\ [][Next]_vars

\* ------------------------------------------------------------------ claims

EnLazoSim == pc \in {"ej_while", "an_while"}

\* The table has no entry for the state and the symbol under the head.
SimAtascado ==
    LET p == Posicion(sim.cinta, sim.cabezal)
    IN  p # 0 /\ ~HayTransicion(cfg, sim.estado_actual, sim.cinta[p])

TMAtascado ==
    <<tm.current_state, TapeGet(tm.tape, tm.head)>> \notin DOMAIN cfg.transitions

\* Two sparse tapes hold the same symbol at every position.
MismaCinta(t1, t2) ==
    \A i \in (DOMAIN t1) \cup (DOMAIN t2) : TapeGet(t1, i) = TapeGet(t2, i)

\* C1: in SimuladorTuring, once inicializar_cinta has set the tape up, the
\* head index keeps a margin inside the materialized tape,
\* 2 <= cabezal <= len(cinta) - 3, after the initialisation and after every
\* ejecutar_paso, and no access to cinta[cabezal] raises IndexError.
C1_CabezalConMargen ==
    /\ excepcion # "IndexError"
    /\ Len(sim.cinta) > 0 =>
          /\ 2 <= sim.cabezal
          /\ sim.cabezal <= Len(sim.cinta) - 3

\* The head has walked more than a block to the left of the input and stands
\* on the left margin.
C1_Testigo ==
    /\ prog = "simulador"
    /\ antepuestas >= 2 * Bloque
    /\ sim.cabezal = 2

\* C3: a step of SimuladorTuring that grows the tape keeps the symbol at every
\* logical position materialized before it (the cell the step wrote holds the
\* written symbol), moves the head's logical position only by the
\* transition's move, and fills every new cell with the blank.
C3_CrecimientoTransparente ==
    [][ (EnLazoSim /\ Len(sim'.cinta) > Len(sim.cinta)) =>
          LET d == antepuestas' - antepuestas
              p == sim.cabezal + 1
              t == cfg.tabla_transicion[sim.estado_actual][sim.cinta[p]]
              n == Len(sim.cinta)
          IN  /\ Len(sim'.cinta) = n + Bloque
              /\ d \in {0, Bloque}
              /\ \A i \in 1..n :
                    sim'.cinta[i + d] = IF i = p THEN t[2] ELSE sim.cinta[i]
              /\ sim'.cabezal - d = sim.cabezal + t[3]
              /\ \A j \in (1..d) \cup ((n + d + 1)..(n + Bloque)) :
                    sim'.cinta[j] = cfg.simbolo_blanco
      ]_vars

\* A block was put in front of the tape by the last step, and the cell that
\* step wrote, now shifted by the block, holds the '1' written.
C3_Testigo ==
    /\ prog = "simulador"
    /\ antepuestas = Bloque
    /\ sim.cabezal = Bloque + 1
    /\ sim.cinta[sim.cabezal + 2] = Uno
    /\ Len(sim.cinta) = MargenIzq + Len(entrada) + Margen + Bloque

\* C4: when the table has no entry for the current state and symbol, the
\* halting call changes neither tape, head, state nor step count and raises
\* nothing, the run loop ends, the step count reported is the number of
\* transitions applied, and TuringMachine.run reports a non-accepting state
\* as not accepted.
C4_AtascoSinFallo ==
    [][ /\ (EnLazoSim /\ SimAtascado) =>
              /\ sim' = sim
              /\ excepcion' = ""
              /\ \/ pc' = pc /\ terminado'
                 \/ pc' = (IF pc = "ej_while" THEN "ej_fin" ELSE "an_for")
        /\ (EnLazoSim /\ terminado) =>
              /\ sim' = sim
              /\ pc' = (IF pc = "ej_while" THEN "ej_fin" ELSE "an_for")
        /\ prog = "simulador" => sim'.pasos = aplicadas'
        /\ (pc = "an_while" /\ pc' = "an_for") =>
              resultados'[Len(resultados')].pasos = aplicadas
        /\ (pc = "tm_while" /\ tm.steps < max_steps /\ TMAtascado
              /\ tm.current_state \notin cfg.estados_finales) =>
              /\ MismaCinta(tm'.tape, tm.tape)
              /\ tm'.head = tm.head
              /\ tm'.current_state = tm.current_state
              /\ tm'.steps = tm.steps
              /\ pc' = "tm_fin"
        /\ pc' = "tm_hecho" =>
              /\ run_result'[1].steps = aplicadas'
              /\ tm'.current_state \notin cfg.estados_finales =>
                    ~run_result'[1].accepted
      ]_vars

\* ejecutar has returned after a stuck halt in a non-accepting state that
\* followed at least one transition.
C4_Testigo ==
    /\ prog = "simulador"
    /\ pc = "hecho"
    /\ resultado # <<>>
    /\ terminado
    /\ sim.pasos > 0
    /\ sim.pasos <= LimitePasos
    /\ SimAtascado
    /\ sim.estado_actual \notin cfg.estados_finales

\* C9: a SimuladorTuring instance that is re-initialised for one input after
\* another is, at every point of every run, equal to a machine built afresh
\* for the current input, and the result and step count it reports are those
\* of the fresh machine.
C9_CorridasIndependientes ==
    prog = "simulador" =>
      /\ (pc \in {"ej_while", "ej_fin", "an_while"}) => sim = fresco
      /\ (pc = "hecho" /\ resultado # <<>>) =>
            /\ sim = fresco
            /\ resultado[1] = ContarUnos(fresco.cinta)
      /\ (pc = "an_for" /\ resultados # <<>>) =>
            /\ sim = fresco
            /\ resultados[Len(resultados)].resultado = ContarUnos(fresco.cinta)
            /\ resultados[Len(resultados)].pasos = fresco.pasos
            /\ resultados[Len(resultados)].entrada = entrada

\* analizar_rendimiento has finished a second input after a first one, of
\* another length, whose run was stopped by the step ceiling.
C9_Testigo ==
    /\ prog = "simulador"
    /\ pc = "an_for"
    /\ Len(resultados) = 2
    /\ resultados[1].pasos > LimitePasos
    /\ resultados[2].pasos > 0
    /\ resultados[1].longitud # resultados[2].longitud

\* The number of cells of the sparse tape that hold '1'.
UnosEnTape(tape) == Cardinality({ i \in DOMAIN tape : tape[i] = Uno })

\* C5: a step invoked while the current state is accepting changes neither
\* tape, head, state nor step count, in either machine.
C5_SinPasoTrasAceptar ==
    [][ /\ (EnLazoSim /\ sim.estado_actual \in cfg.estados_finales) => sim' = sim
        /\ (pc = "tm_while" /\ tm.current_state \in cfg.estados_finales) =>
              /\ MismaCinta(tm'.tape, tm.tape)
              /\ tm'.head = tm.head
              /\ tm'.current_state = tm.current_state
              /\ tm'.steps = tm.steps
      ]_vars

\* C6: a run never applies more transitions than its step ceiling (1000 in
\* SimuladorTuring, max_steps in TuringMachine.run), and a run with ceiling 1
\* that could go on ends with steps = 1 and accepted = false.
C6_TopeDePasos ==
    /\ prog = "simulador" =>
          /\ sim.pasos <= LimitePasos
          /\ aplicadas <= LimitePasos
    /\ (prog = "main" /\ pc \in {"tm_while", "tm_fin", "tm_hecho"}) =>
          /\ tm.steps <= max_steps
          /\ aplicadas <= max_steps
    /\ (pc = "tm_hecho" /\ max_steps = 1 /\ ~TMAtascado
          /\ tm.current_state \notin cfg.estados_finales) =>
          /\ run_result[1].steps = 1
          /\ ~run_result[1].accepted

\* C7: the numeric result of a run is the number of cells of the final tape
\* that hold '1', however the run ended, in either machine.
C7_ResultadoCuentaUnos ==
    /\ (pc = "hecho" /\ resultado # <<>>) => resultado[1] = ContarUnos(sim.cinta)
    /\ (pc = "an_for" /\ resultados # <<>>) =>
          resultados[Len(resultados)].resultado = ContarUnos(sim.cinta)
    /\ pc = "tm_hecho" => run_result[1].result = UnosEnTape(tm.tape)

\* C8: initialising either machine with an input that holds a symbol outside
\* the input alphabet fails with an invalid-input error, changes no field of
\* the machine, and no step is run on that input.
C8_EntradaInvalidaRechazada ==
    [][ /\ (corridas' = corridas + 1 /\ EntradaInvalida(cfg, entrada')) =>
              /\ pc' = "error"
              /\ excepcion' = "ValueError"
              /\ sim' = sim
              /\ tm' = tm
        /\ EntradaInvalida(cfg, entrada) =>
              pc \notin {"ej_while", "an_while", "tm_listo", "tm_while"}
      ]_vars

\* C10: every run terminates: a run makes at most ceiling + 1 calls of
\* ejecutar_paso (at most max_steps calls of step), whatever the table; every
\* step inside a run is one more call or leaves the driver's position, no call
\* raises, and what follows the loop is the result.
C10_TodaCorridaTermina ==
    [][ /\ prog = "simulador" => llamadas' <= LimitePasos + 1
        /\ (prog = "main" /\ pc' \in {"tm_while", "tm_fin", "tm_hecho"}) =>
              llamadas' <= max_steps'
        /\ EnCorrida => (pc' # pc \/ llamadas' = llamadas + 1)
        /\ EnCorrida => pc' # "error"
        /\ pc = "ej_fin" => (pc' = "hecho" /\ resultado' # <<>>)
        /\ (pc = "an_while" /\ pc' # pc) =>
              (pc' = "an_for" /\ Len(resultados') = Len(resultados) + 1)
        /\ pc = "tm_fin" => (pc' = "tm_hecho" /\ run_result' # <<>>)
      ]_vars

\* ejecutar has returned its result after a run the step ceiling stopped.
C10_Testigo ==
    /\ prog = "simulador"
    /\ pc = "hecho"
    /\ resultado # <<>>
    /\ ~terminado
    /\ sim.pasos > LimitePasos

\* A call of ejecutar_paso from a run loop that applied a transition.
PasoAplicado == EnLazoSim /\ aplicadas' = aplicadas + 1

\* The table entry ejecutar_paso applies in the current state.
TransicionActual == cfg.tabla_transicion[sim.estado_actual][sim.cinta[sim.cabezal + 1]]

\* C12: ejecutar_paso grows the tape exactly when the head, after its move,
\* is within 2 cells of a boundary: at cabezal >= len(cinta) - 2 it appends
\* exactly 20 blanks and leaves cabezal; otherwise at cabezal <= 1 it
\* prepends exactly 20 blanks and adds 20 to cabezal; otherwise the length is
\* unchanged.  The tape length never decreases during a run.
C12_CreceExactamente ==
    [][ /\ PasoAplicado =>
              LET h == sim.cabezal + TransicionActual[3]
                  n == Len(sim.cinta)
              IN  IF h >= n - 2
                  THEN /\ Len(sim'.cinta) = n + 20
                       /\ sim'.cabezal = h
                       /\ antepuestas' = antepuestas
                       /\ \A j \in (n + 1)..(n + 20) :
                             sim'.cinta[j] = cfg.simbolo_blanco
                  ELSE IF h <= 1
                  THEN /\ Len(sim'.cinta) = n + 20
                       /\ sim'.cabezal = h + 20
                       /\ antepuestas' = antepuestas + 20
                       /\ \A j \in 1..20 : sim'.cinta[j] = cfg.simbolo_blanco
                  ELSE /\ Len(sim'.cinta) = n
                       /\ sim'.cabezal = h
                       /\ antepuestas' = antepuestas
        /\ EnLazoSim => Len(sim'.cinta) >= Len(sim.cinta)
      ]_vars

\* The last step appended a block: the head stands 2 cells before the old end
\* of a tape that has grown once, at its end.
C12_Testigo ==
    /\ prog = "simulador"
    /\ EnLazoSim
    /\ antepuestas = 0
    /\ Len(sim.cinta) = MargenIzq + Len(entrada) + Margen + Bloque
    /\ sim.cabezal = Len(sim.cinta) - Bloque - 2

\* C13: a step that applies a transition leaves the transition's write symbol
\* in the cell that was under the head and changes no other logical cell, moves
\* the head by exactly one cell in the transition's direction, enters the
\* transition's next state and adds exactly 1 to the step count, in either
\* machine.
C13_EfectoDeUnPaso ==
    [][ /\ PasoAplicado =>
              LET t == TransicionActual
                  d == antepuestas' - antepuestas
                  p == sim.cabezal + 1
              IN  /\ \A i \in 1..Len(sim.cinta) :
                        sim'.cinta[i + d] = IF i = p THEN t[2] ELSE sim.cinta[i]
                  /\ t[3] \in {-1, 1}
                  /\ (sim'.cabezal - d) - sim.cabezal = t[3]
                  /\ sim'.estado_actual = t[1]
                  /\ sim'.pasos = sim.pasos + 1
        /\ (pc = "tm_while" /\ aplicadas' = aplicadas + 1) =>
              LET t == cfg.transitions[<<tm.current_state, TapeGet(tm.tape, tm.head)>>]
              IN  /\ TapeGet(tm'.tape, tm.head) = t.write
                  /\ \A i \in ((DOMAIN tm.tape) \cup (DOMAIN tm'.tape)) \ {tm.head} :
                        TapeGet(tm'.tape, i) = TapeGet(tm.tape, i)
                  /\ tm'.head - tm.head = (IF t.move = "R" THEN 1 ELSE -1)
                  /\ tm'.current_state = t.next_state
                  /\ tm'.steps = tm.steps + 1
      ]_vars

\* TuringMachine has just moved left off the input after overwriting its
\* first '1' with the blank.
C13_Testigo ==
    /\ prog = "main"
    /\ pc = "tm_while"
    /\ tm.steps = 1
    /\ tm.head = -1
    /\ Len(entrada) >= 1
    /\ entrada[1] = Uno
    /\ TapeGet(tm.tape, 0) = Blanco

\* C14: after applying a transition ejecutar_paso returns True exactly when
\* the new state is final or the table has no entry for the new state and the
\* symbol now under the head, read after growth and re-basing.
C14_RetornoDelPaso ==
    [][ PasoAplicado =>
          /\ pc' # "error"
          /\ terminado' =
                (\/ sim'.estado_actual \in cfg.estados_finales
                 \/ ~HayTransicion(cfg, sim'.estado_actual,
                                   sim'.cinta[sim'.cabezal + 1]))
      ]_vars

\* analizar_rendimiento's loop holds a True that ejecutar_paso returned, after
\* a transition, for a missing entry in a non-final state.
C14_Testigo ==
    /\ prog = "simulador"
    /\ pc = "an_while"
    /\ terminado
    /\ aplicadas > 0
    /\ sim.estado_actual \notin cfg.estados_finales
    /\ SimAtascado

\* C15: for every valid input of length n, inicializar_cinta builds a tape of
\* exactly 5 blanks, the n input symbols at indices 5..5+n-1 and 50 blanks,
\* and sets the head to 5, the state to the configured initial state and the
\* step count to 0, whatever the machine's earlier state.
C15_CintaInicial ==
    [][ (prog = "simulador" /\ corridas' = corridas + 1
           /\ ~EntradaInvalida(cfg, entrada')) =>
          LET n == Len(entrada')
          IN  /\ Len(sim'.cinta) = 5 + n + 50
              /\ \A i \in 0..4 : sim'.cinta[i + 1] = cfg.simbolo_blanco
              /\ \A i \in 5..(5 + n - 1) : sim'.cinta[i + 1] = entrada'[i - 4]
              /\ \A i \in (5 + n)..(5 + n + 49) : sim'.cinta[i + 1] = cfg.simbolo_blanco
              /\ sim'.cabezal = 5
              /\ sim'.estado_actual = cfg.estado_inicial
              /\ sim'.pasos = 0
      ]_vars

\* analizar_rendimiento has just initialised the tape for its second input,
\* on a machine whose first run applied transitions.
C15_Testigo ==
    /\ prog = "simulador"
    /\ pc = "an_while"
    /\ llamadas = 0
    /\ Len(resultados) = 1
    /\ resultados[1].pasos > 0
    /\ Len(entrada) = MaxEntrada
    /\ sim.pasos = 0

\* run has returned and its loop ended on self.steps >= max_steps.
TopeAlcanzado == pc = "tm_hecho" /\ tm.steps >= max_steps

\* C16 as stated: run reports accepted exactly when the final state is
\* accepting; a run stopped by the step ceiling reports accepted only if the
\* step that reached the ceiling entered the accepting state; a stuck halt
\* reports accepted = false.
C16_AceptadoSegunEstadoFinal ==
    pc = "tm_hecho" =>
      /\ run_result[1].accepted = (tm.current_state \in cfg.estados_finales)
      /\ (TopeAlcanzado /\ run_result[1].accepted) =>
            (aplicadas >= 1 /\ tm.steps = max_steps)
      /\ (tm.current_state \notin cfg.estados_finales /\ TMAtascado) =>
            ~run_result[1].accepted

\* C16, amended: run reports accepted exactly when the final state is
\* accepting; a run stopped by the step ceiling reports accepted only if the
\* step that reached the ceiling entered the accepting state, or if the
\* machine was built in an accepting state and max_steps let no step run; a
\* stuck halt reports accepted = false.
C16_AceptadoSegunEstadoFinalOInicial ==
    pc = "tm_hecho" =>
      /\ run_result[1].accepted = (tm.current_state \in cfg.estados_finales)
      /\ (TopeAlcanzado /\ run_result[1].accepted) =>
            \/ aplicadas >= 1 /\ tm.steps = max_steps
            \/ /\ aplicadas = 0
               /\ max_steps = 0
               /\ cfg.estado_inicial \in cfg.estados_finales
      /\ (tm.current_state \notin cfg.estados_finales /\ TMAtascado) =>
            ~run_result[1].accepted

\* A run that entered the accepting state with the step that reached the
\* ceiling has reported accepted.
C16_Testigo ==
    /\ TopeAlcanzado
    /\ max_steps >= 1
    /\ aplicadas = max_steps
    /\ run_result[1].accepted

\* C18: in TuringMachine built on a non-empty initial tape,
\* min_pos <= head <= max_pos holds after construction and after every step
\* and every non-blank cell lies in [min_pos, max_pos], so that
\* count_ones_on_tape counts every '1' of the tape.
C18_CabezalEnRango ==
    (prog = "main" /\ pc # "tm_nada" /\ Len(entrada) >= 1) =>
      /\ tm.min_pos <= tm.head
      /\ tm.head <= tm.max_pos
      /\ \A i \in DOMAIN tm.tape :
            tm.tape[i] # Blanco => (tm.min_pos <= i /\ i <= tm.max_pos)
      /\ CountOnesOnTape(tm) = UnosEnTape(tm.tape)

\* The machine has written a '1' left of its input and stands on the leftmost
\* cell it has visited.
C18_Testigo ==
    /\ prog = "main"
    /\ Len(entrada) >= 1
    /\ tm.head = -2
    /\ tm.min_pos = -2
    /\ TapeGet(tm.tape, -1) = Uno

\* The TuringMachine that holds what a SimuladorTuring holds: list index i with
\* ant cells put in front is logical position i - 5 - ant, and the sparse tape
\* keeps the cells that are not blank (a missing key reads as the blank).
Abstraccion(m, ant) ==
    LET d == MargenIzq + ant
        h == m.cabezal - d
    IN  [tape |-> [ i \in { j \in (0 - d)..(Len(m.cinta) - 1 - d) :
                              m.cinta[j + d + 1] # Blanco }
                      |-> m.cinta[i + d + 1] ],
         head |-> h,
         current_state |-> m.estado_actual,
         steps |-> m.pasos,
         min_pos |-> h,
         max_pos |-> h,
         input_n |-> 0,
         iterations |-> 0,
         final_ones_count |-> 0]

\* Two TuringMachines in the same configuration: state, head, step count and
\* the symbol at every position.
MismaConfiguracion(t1, t2) ==
    /\ t1.current_state = t2.current_state
    /\ t1.head = t2.head
    /\ t1.steps = t2.steps
    /\ MismaCinta(t1.tape, t2.tape)

\* C17: with a non-accepting initial state, the list tape of SimuladorTuring
\* and the sparse tape of TuringMachine carry the same run.  The two machines
\* start in the same configuration on the same input; each call of
\* ejecutar_paso takes the list machine where step takes the sparse machine
\* that holds the same logical content, applying a transition exactly when
\* step does; and ejecutar_paso reports the halt exactly when the next step
\* would refuse to move.
C17_CintasEquivalentes ==
    [][ (prog = "simulador" /\ cfg.estado_inicial \notin cfg.estados_finales) =>
          /\ (corridas' = corridas + 1 /\ ~EntradaInvalida(cfg, entrada')) =>
                MismaConfiguracion(TMNuevo(cfg, entrada'),
                                   Abstraccion(sim', antepuestas'))
          /\ (EnLazoSim /\ llamadas' = llamadas + 1) =>
                \A r \in {Step(Abstraccion(sim, antepuestas), cfg, FALSE)},
                   a \in {Abstraccion(sim', antepuestas')} :
                    /\ pc' # "error"
                    /\ MismaConfiguracion(r.t, a)
                    /\ r.ret = (aplicadas' = aplicadas + 1)
                    /\ terminado' = ~Step(a, cfg, FALSE).ret
      ]_vars

\* A run from a non-accepting initial state goes on after a block was put in
\* front of the list tape: list index and logical position are 25 apart.
C17_Testigo ==
    /\ prog = "simulador"
    /\ cfg.estado_inicial \notin cfg.estados_finales
    /\ pc = "ej_while"
    /\ ~terminado
    /\ antepuestas = Bloque
    /\ sim.pasos >= MargenIzq

\* C19: the two run loops of SimuladorTuring are equivalent.  Both start from
\* inicializar_cinta and advance by ejecutar_paso, so they apply the same
\* transitions as long as they take the same decision at every loop head:
\* wherever ejecutar calls ejecutar_paso analizar_rendimiento's condition
\* holds and wherever ejecutar has left its loop that condition fails;
\* wherever analizar_rendimiento calls ejecutar_paso ejecutar has neither
\* left its while nor taken its break; and each reports the count of '1' and
\* the step count of the machine it left.
C19_LazosEquivalentes ==
    /\ pc = "ej_while" => (~terminado <=> AnalizarSigue(terminado, sim.pasos))
    /\ pc = "ej_fin" => ~AnalizarSigue(terminado, sim.pasos)
    /\ (pc = "an_while" /\ llamadas = 0) =>
          (AnalizarSigue(terminado, sim.pasos) /\ ~terminado)
    /\ (pc = "an_while" /\ llamadas > 0) =>
          (AnalizarSigue(terminado, sim.pasos)
              <=> (~terminado /\ ~EjecutarRompe(sim.pasos)))
    /\ (prog = "simulador" /\ pc = "hecho" /\ resultado # <<>>) =>
          resultado[1] = ContarUnos(sim.cinta)
    /\ (pc = "an_for" /\ resultados # <<>>) =>
          /\ resultados[Len(resultados)].resultado = ContarUnos(sim.cinta)
          /\ resultados[Len(resultados)].pasos = sim.pasos

\* ejecutar has left its loop by the break, on a machine that has not halted:
\* the point where the two loop conditions are written differently.
C19_Testigo ==
    /\ pc = "ej_fin"
    /\ ~terminado
    /\ EjecutarRompe(sim.pasos)

=============================================================================
